---- MODULE Spec2Model ----
(***************************************************************************)
(* Model of src/3d/json_plus_track.py: merging BoT-SORT tracker records   *)
(* into a keypoint JSON collection (load_botsort, load_keypoint,          *)
(* assign_track_ids, main), with iou_xyxy also called on its own, and of   *)
(* convert_frames_to_lines of src/3d/json2_shiftgcn.py, which prints a     *)
(* merged collection as skeleton text.                                     *)
(*                                                                         *)
(* Numbers.  Every numeric text or JSON number is represented by its      *)
(* value in half units (the text "1.5" is 3, the text "2" is 4), so that  *)
(* int(float(s)) is a real truncation.  An IoU is the pair                *)
(* <<inter, denom>> of the quotient the code returns, compared by cross   *)
(* multiplication; a squared centre distance is kept times 16.  Float      *)
(* rounding is not modelled.                                               *)
(***************************************************************************)
EXTENDS Integers, Sequences, FiniteSets, TLC

VARIABLES
    pc,                  \* position in main(): load_botsort, load_keypoint, assign, loop, write, done, error
    raised,              \* the exception that ended the run, "none" while there is none
    rows,                \* the rows csv.reader yields for the --botsort file
    row_i,               \* index of the next row of the reader
    botsort_frames,      \* frames: frame -> list of {track_id, bbox_xyxy}
    kp_file,             \* content of the --keypoint file
    kp_frames,           \* the detection collection (mutated in place)
    min_iou,             \* --min_iou, a fraction <<num, den>>
    use_center_fallback, \* --use_center_fallback
    fi,                  \* index of the current entry of kp_frames
    ii,                  \* index of the current instance of that entry
    used,                \* candidate indexes consumed in the current entry
    stats,               \* matched_iou, matched_center, no_candidate
    out_file,            \* the --out file: <<>> while not written, else <<content>>
    iou_a,               \* iou_xyxy called on its own: argument a
    iou_b,               \* argument b
    iou_ret,             \* <<>> before the return, else <<returned value>>
    conv_frames,         \* convert_frames_to_lines: argument frames
    joints,              \* argument joints
    require_nonzero,     \* argument require_nonzero
    fr_i,                \* index of the current frame of the gathering loop
    inst_idx,            \* idx: 1-based index of the current instance (enumerate)
    ids_to_kpts,         \* dict track_id -> keypoints of the current frame
    per_frame,           \* the dicts of the frames gathered so far
    lines                \* the returned lines, each a tuple of its numbers

trackVars == <<rows, row_i, botsort_frames, kp_file, kp_frames, min_iou,
               use_center_fallback, fi, ii, used, stats, out_file>>

iouVars == <<iou_a, iou_b, iou_ret>>

convVars == <<conv_frames, joints, require_nonzero, fr_i, inst_idx, ids_to_kpts, per_frame, lines>>

vars == <<pc, raised, trackVars, iouVars, convVars>>

(***************************************************************************)
(* Bounds of the inputs.                                                   *)
(***************************************************************************)
MaxRows == 2    \* rows of the tracker file (whole program)
MaxDets == 2    \* tracker candidates of a frame (assign_track_ids called directly)
MaxInst == 2    \* detection instances of a collection (assign_track_ids called directly)
MaxCoord == 2   \* greatest coordinate of a rectangle (iou_xyxy called on its own)

(***************************************************************************)
(* Basic utilities.                                                        *)
(***************************************************************************)
Max(a, b) == IF b > a THEN b ELSE a
Min(a, b) == IF b < a THEN b ELSE a

\* a numeric value is never negative after max(0.0, v)
MaxZero(v) == Max(0, v)

\* variant: the quotient is returned whatever the denominator
iou_unguarded(a, b) ==
    LET inter_x1 == Max(a[1], b[1])
        inter_y1 == Max(a[2], b[2])
        inter_x2 == Min(a[3], b[3])
        inter_y2 == Min(a[4], b[4])
        inter_w  == MaxZero(inter_x2 - inter_x1)
        inter_h  == MaxZero(inter_y2 - inter_y1)
        inter    == inter_w * inter_h
        area_a   == MaxZero(a[3] - a[1]) * MaxZero(a[4] - a[2])
        area_b   == MaxZero(b[3] - b[1]) * MaxZero(b[4] - b[2])
        denom    == area_a + area_b - inter
    IN  <<inter, denom>>

iou_xyxy(a, b) ==
    LET inter_x1 == Max(a[1], b[1])
        inter_y1 == Max(a[2], b[2])
        inter_x2 == Min(a[3], b[3])
        inter_y2 == Min(a[4], b[4])
        inter_w  == MaxZero(inter_x2 - inter_x1)
        inter_h  == MaxZero(inter_y2 - inter_y1)
        inter    == inter_w * inter_h
        area_a   == MaxZero(a[3] - a[1]) * MaxZero(a[4] - a[2])
        area_b   == MaxZero(b[3] - b[1]) * MaxZero(b[4] - b[2])
        denom    == area_a + area_b - inter
    IN  IF denom > 0 THEN <<inter, denom>> ELSE <<0, 1>>

\* fractions <<num, den>> with den > 0
FracGT(p, q) == p[1] * q[2] > q[1] * p[2]
FracGE(p, q) == p[1] * q[2] >= q[1] * p[2]
FracMaxZero(p) == IF FracGT(<<0, 1>>, p) THEN <<0, 1>> ELSE p

\* 0.5*(x1+x2), 0.5*(y1+y2), kept times 2
center_xyxy(b) == <<b[1] + b[3], b[2] + b[4]>>

\* (cx - dcx)**2 + (cy - dcy)**2 of two centres
Dist2(c, d) == (c[1] - d[1]) * (c[1] - d[1]) + (c[2] - d[2]) * (c[2] - d[2])

(***************************************************************************)
(* A text field or a JSON scalar is <<"n", v>> (a number, v in half units) *)
(* or <<"s", 0>> (a text float() rejects).                                 *)
(***************************************************************************)
Num(v) == <<"n", v>>
NotNum == <<"s", 0>>

FloatRaises(tok) == tok[1] # "n"
float(tok) == tok[2]

\* int(x) of a float: truncation toward zero, result in whole units
int(h) == IF h >= 0 THEN h \div 2 ELSE -((-h) \div 2)

(***************************************************************************)
(* load_botsort                                                            *)
(***************************************************************************)
\* a variant that also passes over a record float() rejects
RowSkippedTolerant(row) ==
    IF Len(row) < 6 THEN TRUE ELSE \E k \in 1..6 : row[k][1] # "n"

\* if not row or len(row) < 6: continue
RowSkipped(row) == Len(row) = 0 \/ Len(row) < 6

RowRaises(row) == \E k \in 1..6 : FloatRaises(row[k])

RowFrame(row) == int(float(row[1]))

RowDet(row) ==
    LET x == float(row[3])
        y == float(row[4])
        w == float(row[5])
        h == float(row[6])
    IN  [track_id |-> int(float(row[2])), bbox_xyxy |-> <<x, y, x + w, y + h>>]

\* frames.setdefault(frame, []).append(det)
SetDefaultAppend(frames, frame, det) ==
    [f \in DOMAIN frames \cup {frame} |->
        IF f = frame
        THEN (IF f \in DOMAIN frames THEN Append(frames[f], det) ELSE <<det>>)
        ELSE frames[f]]

EmptyIndex == [f \in {} |-> <<>>]

(***************************************************************************)
(* assign_track_ids: helpers.  Candidate indexes are 1-based here; index 0 *)
(* stands for the code's best_idx = -1.                                    *)
(***************************************************************************)
HasKey(d, k) == k \in DOMAIN d

\* int(entry.get("frame_id", -1))
EntryFrameId(entry) == IF HasKey(entry, "frame_id") THEN int(entry.frame_id) ELSE -1

\* entry.get("instances", [])
EntryInstances(entry) == IF HasKey(entry, "instances") THEN entry.instances ELSE <<>>

\* botsort_frames.get(frame_id, [])
FrameDets(frames, frame_id) == IF frame_id \in DOMAIN frames THEN frames[frame_id] ELSE <<>>

\* not bbox or len(bbox) != 4 or not dets
NoUsableBBox(inst, dets) ==
    IF ~HasKey(inst, "bbox") THEN TRUE
    ELSE IF Len(inst.bbox) = 0 THEN TRUE
    ELSE IF Len(inst.bbox) # 4 THEN TRUE
    ELSE Len(dets) = 0

\* tuple(map(float, bbox)) raises ValueError
BBoxRaises(inst) == \E k \in 1..Len(inst.bbox) : FloatRaises(inst.bbox[k])

\* bb = tuple(map(float, bbox))
BBoxFloats(inst) == [k \in 1..Len(inst.bbox) |-> float(inst.bbox[k])]

\* a variant without the exclusivity test
ConsumedNever(idx, usedSet) == FALSE

\* if idx in used: continue
Consumed(idx, usedSet) == idx \in usedSet

\* a variant where the last of equal candidates wins
IouBetterOrEqual(iou, best_iou) == FracGE(iou, best_iou)

\* if iou > best_iou
IouBetter(iou, best_iou) == FracGT(iou, best_iou)

RECURSIVE ScanIou(_, _, _, _, _)
ScanIou(bb, dets, usedSet, idx, best) ==
    IF idx > Len(dets) THEN best
    ELSE IF Consumed(idx, usedSet) THEN ScanIou(bb, dets, usedSet, idx + 1, best)
    ELSE LET iou == iou_xyxy(bb, dets[idx].bbox_xyxy)
         IN  ScanIou(bb, dets, usedSet, idx + 1,
                     IF IouBetter(iou, best[1]) THEN <<iou, idx>> ELSE best)

\* phase 1: <<best_iou, best_idx>> after the loop, from best_iou, best_idx = -1.0, -1
BestIou(bb, dets, usedSet) == ScanIou(bb, dets, usedSet, 1, <<<<-1, 1>>, 0>>)

\* a variant with a strict floor
IouAcceptedStrict(best, floor) == best[2] # 0 /\ FracGT(best[1], FracMaxZero(floor))

\* if best_idx != -1 and best_iou >= max(0.0, min_iou)
IouAccepted(best, floor) == best[2] # 0 /\ FracGE(best[1], FracMaxZero(floor))

\* a variant that ignores the option
FallbackAlways(ucf, dets) == Len(dets) > 0

\* if use_center_fallback and dets
FallbackEntered(ucf, dets) == ucf /\ Len(dets) > 0

\* variant: the scan keeps the farther candidate
CenterFarther(d2, best_d2) == best_d2 < 0 \/ d2 > best_d2

\* if d2 < best_d2, where best_d2 < 0 stands for float("inf")
CenterCloser(d2, best_d2) == best_d2 < 0 \/ d2 < best_d2

RECURSIVE ScanCenter(_, _, _, _, _)
ScanCenter(c, dets, usedSet, idx, best) ==
    IF idx > Len(dets) THEN best
    ELSE IF Consumed(idx, usedSet) THEN ScanCenter(c, dets, usedSet, idx + 1, best)
    ELSE LET d2 == Dist2(c, center_xyxy(dets[idx].bbox_xyxy))
         IN  ScanCenter(c, dets, usedSet, idx + 1,
                        IF CenterCloser(d2, best[1]) THEN <<d2, idx>> ELSE best)

\* phase 2: <<best_d2, best_idx2>> after the loop, from float("inf"), -1
BestCenter(bb, dets, usedSet) == ScanCenter(center_xyxy(bb), dets, usedSet, 1, <<-1, 0>>)

\* a variant that replaces the instance by a fresh dict
SetTrackIdDropsFields(inst, t) == [k \in {"track_id"} |-> t]

\* inst["track_id"] = t
SetTrackId(inst, t) ==
    [k \in DOMAIN inst \cup {"track_id"} |-> IF k = "track_id" THEN t ELSE inst[k]]

\* a variant that forgets the count of line 110 and line 148
IncrForgetsNoCandidate(st, key) ==
    IF key = "no_candidate" THEN st ELSE [st EXCEPT ![key] = @ + 1]

\* a variant that writes the candidate's position
CandIndexAsId(dets, idx) == idx

\* dets[best_idx]["track_id"]
CandTrackId(dets, idx) == dets[idx].track_id

\* stats[key] += 1
Incr(st, key) == [st EXCEPT ![key] = @ + 1]

\* the sentinel written when nothing matched
Unmatched == -1

ZeroStats == [matched_iou |-> 0, matched_center |-> 0, no_candidate |-> 0]

(***************************************************************************)
(* Inputs.  JsonInt(n) is the JSON or text integer n.                      *)
(***************************************************************************)
JsonInt(n) == 2 * n

BoxA == <<0, 0, 4, 4>>
BoxB == <<2, 0, 6, 4>>      \* IoU 1/3 with BoxA
BoxD == <<8, 8, 12, 12>>    \* disjoint from both

NumBox(b) == [k \in 1..4 |-> Num(b[k])]

\* detection instances: one with a usable box, and one for each way a box
\* can be unusable (the first of them already carries a track_id)
InstB       == [bbox |-> NumBox(BoxB), keypoints |-> "kB"]
InstMissing == [keypoints |-> "kM", track_id |-> 7]
InstEmpty   == [bbox |-> <<>>, keypoints |-> "kE"]
InstShort   == [bbox |-> <<Num(0), Num(0), Num(4)>>, keypoints |-> "kS"]
InstNotNum  == [bbox |-> <<NotNum, Num(0), Num(4), Num(4)>>, keypoints |-> "kN"]

InstVals == {InstB, InstMissing, InstEmpty, InstShort, InstNotNum}

\* tracker candidates: two of IoU 1/3 with BoxB (a tie), and a disjoint one
\* with a negative id
Cands == { [track_id |-> 1,  bbox_xyxy |-> BoxA],
           [track_id |-> 2,  bbox_xyxy |-> BoxA],
           [track_id |-> -3, bbox_xyxy |-> BoxD] }

\* frame_id of the successive entries of a detection collection
FrameLayouts == { <<>>, <<JsonInt(1), JsonInt(1)>>, <<JsonInt(2), JsonInt(1)>> }

SeqsUpTo(S, n) == UNION { [1..m -> S] : m \in 0..n }

RECURSIVE SumLen(_, _)
SumLen(ss, k) == IF k = 0 THEN 0 ELSE Len(ss[k]) + SumLen(ss, k - 1)

\* the detection collections with at most MaxInst instances
Collections ==
    UNION { { [e \in 1..Len(L) |-> [frame_id |-> L[e], instances |-> ss[e]]] :
                ss \in { t \in [1..Len(L) -> SeqsUpTo(InstVals, MaxInst)] :
                            SumLen(t, Len(L)) <= MaxInst } } :
            L \in FrameLayouts }

\* the tracker indexes with at most MaxDets candidates, all of frame 1
Indexes ==
    { IF Len(ds) = 0 THEN EmptyIndex ELSE [f \in {1} |-> ds] : ds \in SeqsUpTo(Cands, MaxDets) }

\* --min_iou: the default 0.0, and a positive floor
MinIous == { <<0, 1>>, <<1, 3>> }

\* rows of the tracker file: "1,1,0,0,2,2", "1.5,2.5,0,0,2,2,0.5" (seven
\* fields, fractional frame and id), "1,-3,4,4,2,2", "1,1,0,0,2" (five
\* fields), "abc,1,2,3,4,5" and a blank line
RowNear  == <<Num(2), Num(2), Num(0), Num(0), Num(4), Num(4)>>
RowFrac  == <<Num(3), Num(5), Num(0), Num(0), Num(4), Num(4), Num(1)>>
RowFar   == <<Num(2), Num(-6), Num(8), Num(8), Num(4), Num(4)>>
RowShort == <<Num(2), Num(2), Num(0), Num(0), Num(4)>>
RowBad   == <<NotNum, Num(2), Num(4), Num(6), Num(8), Num(10)>>
RowBlank == <<>>

RowVals == {RowNear, RowFrac, RowFar, RowShort, RowBad, RowBlank}

Entry(f, insts) == [frame_id |-> JsonInt(f), instances |-> insts]

\* keypoint files: one that is not JSON, and three documents
KpFiles ==
    { [ok |-> FALSE, doc |-> <<>>],
      [ok |-> TRUE,  doc |-> << Entry(1, <<InstB, InstB>>), Entry(2, <<InstMissing>>) >>],
      [ok |-> TRUE,  doc |-> << Entry(1, <<InstShort, InstNotNum, InstB>>) >>],
      [ok |-> TRUE,  doc |-> << Entry(1, <<InstEmpty>>), Entry(1, <<InstB>>) >>] }

\* main() and assign_track_ids are not running
TrackIdle ==
    /\ rows = <<>>
    /\ row_i = 1
    /\ botsort_frames = EmptyIndex
    /\ kp_file = [ok |-> TRUE, doc |-> <<>>]
    /\ kp_frames = <<>>
    /\ min_iou = <<0, 1>>
    /\ use_center_fallback = FALSE
    /\ fi = 0
    /\ ii = 1
    /\ used = {}
    /\ stats = ZeroStats
    /\ out_file = <<>>

\* iou_xyxy is not called on its own
IouIdle == iou_a = <<>> /\ iou_b = <<>> /\ iou_ret = <<>>

\* convert_frames_to_lines is not called
ConvertIdle ==
    /\ conv_frames = <<>>
    /\ joints = 0
    /\ require_nonzero = FALSE
    /\ fr_i = 0
    /\ inst_idx = 0
    /\ ids_to_kpts = <<>>
    /\ per_frame = <<>>
    /\ lines = <<>>

(***************************************************************************)
(* main(): the whole program.                                              *)
(***************************************************************************)
Init ==
    /\ pc = "load_botsort"
    /\ raised = "none"
    /\ rows \in SeqsUpTo(RowVals, MaxRows)
    /\ row_i = 1
    /\ botsort_frames = EmptyIndex
    /\ kp_file \in KpFiles
    /\ kp_frames = <<>>
    /\ min_iou \in MinIous
    /\ use_center_fallback \in BOOLEAN
    /\ fi = 0
    /\ ii = 1
    /\ used = {}
    /\ stats = ZeroStats
    /\ out_file = <<>>
    /\ IouIdle
    /\ ConvertIdle

\* assign_track_ids called on any collection, index and configuration
InitAssign ==
    /\ pc = "assign"
    /\ raised = "none"
    /\ rows = <<>>
    /\ row_i = 1
    /\ botsort_frames \in Indexes
    /\ kp_frames \in Collections
    /\ kp_file = [ok |-> TRUE, doc |-> kp_frames]
    /\ min_iou \in MinIous
    /\ use_center_fallback \in BOOLEAN
    /\ fi = 0
    /\ ii = 1
    /\ used = {}
    /\ stats = ZeroStats
    /\ out_file = <<>>
    /\ IouIdle
    /\ ConvertIdle

\* --min_iou values that let phase 1 take the overlapping candidate (1/3)
\* or leave every candidate to the fallback (1/2)
FallbackMinIous == {<<1, 3>>, <<1, 2>>}

\* assign_track_ids called with use_center_fallback=True
InitFallback ==
    /\ pc = "assign"
    /\ raised = "none"
    /\ rows = <<>>
    /\ row_i = 1
    /\ botsort_frames \in Indexes
    /\ kp_frames \in Collections
    /\ kp_file = [ok |-> TRUE, doc |-> kp_frames]
    /\ min_iou \in FallbackMinIous
    /\ use_center_fallback = TRUE
    /\ fi = 0
    /\ ii = 1
    /\ used = {}
    /\ stats = ZeroStats
    /\ out_file = <<>>
    /\ IouIdle
    /\ ConvertIdle

Raise(exc) ==
    /\ pc' = "error"
    /\ raised' = exc

LoadRowSkip ==
    /\ pc = "load_botsort"
    /\ row_i <= Len(rows)
    /\ RowSkipped(rows[row_i])
    /\ row_i' = row_i + 1
    /\ UNCHANGED <<pc, raised, rows, botsort_frames, kp_file, kp_frames, min_iou,
                   use_center_fallback, fi, ii, used, stats, out_file,
                   iouVars, convVars>>

LoadRowRaise ==
    /\ pc = "load_botsort"
    /\ row_i <= Len(rows)
    /\ ~RowSkipped(rows[row_i])
    /\ RowRaises(rows[row_i])
    /\ Raise("ValueError")
    /\ UNCHANGED <<rows, row_i, botsort_frames, kp_file, kp_frames, min_iou,
                   use_center_fallback, fi, ii, used, stats, out_file,
                   iouVars, convVars>>

LoadRowAppend ==
    /\ pc = "load_botsort"
    /\ row_i <= Len(rows)
    /\ ~RowSkipped(rows[row_i])
    /\ ~RowRaises(rows[row_i])
    /\ botsort_frames' = SetDefaultAppend(botsort_frames, RowFrame(rows[row_i]), RowDet(rows[row_i]))
    /\ row_i' = row_i + 1
    /\ UNCHANGED <<pc, raised, rows, kp_file, kp_frames, min_iou,
                   use_center_fallback, fi, ii, used, stats, out_file,
                   iouVars, convVars>>

LoadBotsortReturn ==
    /\ pc = "load_botsort"
    /\ row_i > Len(rows)
    /\ pc' = "load_keypoint"
    /\ UNCHANGED <<raised, rows, row_i, botsort_frames, kp_file, kp_frames, min_iou,
                   use_center_fallback, fi, ii, used, stats, out_file,
                   iouVars, convVars>>

LoadKeypoint ==
    /\ pc = "load_keypoint"
    /\ kp_file.ok
    /\ kp_frames' = kp_file.doc
    /\ pc' = "assign"
    /\ UNCHANGED <<raised, rows, row_i, botsort_frames, kp_file, min_iou,
                   use_center_fallback, fi, ii, used, stats, out_file,
                   iouVars, convVars>>

LoadKeypointRaise ==
    /\ pc = "load_keypoint"
    /\ ~kp_file.ok
    /\ Raise("JSONDecodeError")
    /\ UNCHANGED <<rows, row_i, botsort_frames, kp_file, kp_frames, min_iou,
                   use_center_fallback, fi, ii, used, stats, out_file,
                   iouVars, convVars>>

(***************************************************************************)
(* assign_track_ids                                                        *)
(***************************************************************************)
CallAssign ==
    /\ pc = "assign"
    /\ pc' = "loop"
    /\ stats' = ZeroStats
    /\ fi' = 0
    /\ ii' = 1
    /\ used' = {}
    /\ UNCHANGED <<raised, rows, row_i, botsort_frames, kp_file, kp_frames, min_iou,
                   use_center_fallback, out_file,
                   iouVars, convVars>>

\* the instance loop of the current entry is over (or no entry was entered yet)
EntryDone == IF fi = 0 THEN TRUE ELSE ii > Len(EntryInstances(kp_frames[fi]))

AtInstance == pc = "loop" /\ ~EntryDone

CurEntry == kp_frames[fi]
CurInst  == EntryInstances(CurEntry)[ii]
CurDets  == FrameDets(botsort_frames, EntryFrameId(CurEntry))
CurBest  == BestIou(BBoxFloats(CurInst), CurDets, used)
CurBest2 == BestCenter(BBoxFloats(CurInst), CurDets, used)

\* for entry in kp_frames: frame_id, instances, dets, used = set()
NextFrame ==
    /\ pc = "loop"
    /\ EntryDone
    /\ fi < Len(kp_frames)
    /\ fi' = fi + 1
    /\ ii' = 1
    /\ used' = {}
    /\ UNCHANGED <<pc, raised, rows, row_i, botsort_frames, kp_file, kp_frames, min_iou,
                   use_center_fallback, stats, out_file,
                   iouVars, convVars>>

\* inst["track_id"] = t; stats[key] += 1; continue
Resolve(t, key, usedNew) ==
    /\ kp_frames' = [kp_frames EXCEPT ![fi] =
                        [@ EXCEPT !.instances = [@ EXCEPT ![ii] = SetTrackId(@, t)]]]
    /\ stats' = Incr(stats, key)
    /\ used' = usedNew
    /\ ii' = ii + 1
    /\ UNCHANGED <<pc, raised, rows, row_i, botsort_frames, kp_file, min_iou,
                   use_center_fallback, fi, out_file,
                   iouVars, convVars>>

InstNoCandidate ==
    /\ AtInstance
    /\ NoUsableBBox(CurInst, CurDets)
    /\ Resolve(Unmatched, "no_candidate", used)

InstBBoxRaise ==
    /\ AtInstance
    /\ ~NoUsableBBox(CurInst, CurDets)
    /\ BBoxRaises(CurInst)
    /\ Raise("ValueError")
    /\ UNCHANGED <<rows, row_i, botsort_frames, kp_file, kp_frames, min_iou,
                   use_center_fallback, fi, ii, used, stats, out_file,
                   iouVars, convVars>>

InstMatchedIou ==
    /\ AtInstance
    /\ ~NoUsableBBox(CurInst, CurDets)
    /\ ~BBoxRaises(CurInst)
    /\ IouAccepted(CurBest, min_iou)
    /\ Resolve(CandTrackId(CurDets, CurBest[2]), "matched_iou", used \cup {CurBest[2]})

InstMatchedCenter ==
    /\ AtInstance
    /\ ~NoUsableBBox(CurInst, CurDets)
    /\ ~BBoxRaises(CurInst)
    /\ ~IouAccepted(CurBest, min_iou)
    /\ FallbackEntered(use_center_fallback, CurDets)
    /\ CurBest2[2] # 0
    /\ Resolve(CandTrackId(CurDets, CurBest2[2]), "matched_center", used \cup {CurBest2[2]})

InstNoMatch ==
    /\ AtInstance
    /\ ~NoUsableBBox(CurInst, CurDets)
    /\ ~BBoxRaises(CurInst)
    /\ ~IouAccepted(CurBest, min_iou)
    /\ ~(FallbackEntered(use_center_fallback, CurDets) /\ CurBest2[2] # 0)
    /\ Resolve(Unmatched, "no_candidate", used)

\* return stats
AssignReturn ==
    /\ pc = "loop"
    /\ EntryDone
    /\ fi = Len(kp_frames)
    /\ pc' = "write"
    /\ UNCHANGED <<raised, rows, row_i, botsort_frames, kp_file, kp_frames, min_iou,
                   use_center_fallback, fi, ii, used, stats, out_file,
                   iouVars, convVars>>

\* a variant that writes in a cleanup path as well
WriteReachedAfterError == pc \in {"write", "error"}

\* main() reaches open(args.out, "w") only after assign_track_ids returned
WriteReached == pc = "write"

WriteOutput ==
    /\ WriteReached
    /\ out_file' = <<kp_frames>>
    /\ pc' = "done"
    /\ UNCHANGED <<raised, rows, row_i, botsort_frames, kp_file, kp_frames, min_iou,
                   use_center_fallback, fi, ii, used, stats,
                   iouVars, convVars>>

NextAssign ==
    \/ CallAssign
    \/ NextFrame
    \/ InstNoCandidate
    \/ InstBBoxRaise
    \/ InstMatchedIou
    \/ InstMatchedCenter
    \/ InstNoMatch
    \/ AssignReturn

Next ==
    \/ LoadRowSkip
    \/ LoadRowRaise
    \/ LoadRowAppend
    \/ LoadBotsortReturn
    \/ LoadKeypoint
    \/ LoadKeypointRaise
    \/ NextAssign
    \/ WriteOutput

Spec == Init /\ [][Next]_vars

SpecAssign == InitAssign /\ [][NextAssign]_vars

SpecFallback == InitFallback /\ [][NextAssign]_vars

(***************************************************************************)
(* iou_xyxy called on its own, on any two rectangles of the grid.         *)
(***************************************************************************)
GridRects == (0..MaxCoord) \X (0..MaxCoord) \X (0..MaxCoord) \X (0..MaxCoord)

InitIou ==
    /\ pc = "iou_call"
    /\ raised = "none"
    /\ iou_a \in GridRects
    /\ iou_b \in GridRects
    /\ iou_ret = <<>>
    /\ TrackIdle
    /\ ConvertIdle

IouCall ==
    /\ pc = "iou_call"
    /\ iou_ret' = <<iou_xyxy(iou_a, iou_b)>>
    /\ pc' = "iou_done"
    /\ UNCHANGED <<raised, iou_a, iou_b, trackVars, convVars>>

NextIou == IouCall

SpecIou == InitIou /\ [][NextIou]_vars

(***************************************************************************)
(* src/3d/json2_shiftgcn.py: convert_frames_to_lines.                     *)
(*                                                                         *)
(* A JSON list is <<"l", elements>>, a JSON scalar is a token as above.   *)
(* A returned line is the tuple of the numbers it prints: <<n>> for the   *)
(* lines T, N, track_id and V, <<x, y, z>> for a joint (x, y, z in half   *)
(* units).                                                                 *)
(***************************************************************************)
TrackIdKeys == <<"track_id", "tracking_id", "id", "person_id">>

\* the first key of TrackIdKeys the instance has, 0 when it has none
FirstIdKey(inst) ==
    LET present == { k \in 1..Len(TrackIdKeys) : HasKey(inst, TrackIdKeys[k]) }
    IN  IF present = {} THEN 0 ELSE CHOOSE k \in present : \A j \in present : k <= j

\* int(inst[k]) of the first key present, the within-frame index when there
\* is none or int() rejects the value
get_track_id(inst, fallback_index) ==
    IF FirstIdKey(inst) = 0 THEN fallback_index
    ELSE IF inst[TrackIdKeys[FirstIdKey(inst)]][1] # "n" THEN fallback_index
    ELSE int(inst[TrackIdKeys[FirstIdKey(inst)]][2])

IsList(v) == v[1] = "l"

\* inst.get("keypoints", [])
InstKeypoints(inst) == IF HasKey(inst, "keypoints") THEN inst.keypoints ELSE <<"l", <<>>>>

\* unwrap a single extra nesting
Unwrapped(kpts) ==
    IF ~IsList(kpts) THEN kpts
    ELSE IF Len(kpts[2]) # 1 THEN kpts
    ELSE IF IsList(kpts[2][1]) THEN kpts[2][1] ELSE kpts

PointRaises(p) ==
    IF ~IsList(p) THEN TRUE
    ELSE IF Len(p[2]) < 3 THEN TRUE
    ELSE \E c \in 1..3 : FloatRaises(p[2][c])

NormalizeRaises(kpts) ==
    LET k == Unwrapped(kpts)
    IN  IF ~IsList(k) THEN TRUE
        ELSE IF Len(k[2]) > 0 /\ ~IsList(k[2][1]) THEN TRUE
        ELSE \E i \in 1..Len(k[2]) : PointRaises(k[2][i])

normalize_kpts(kpts) ==
    LET k == Unwrapped(kpts)
    IN  [i \in 1..Len(k[2]) |->
            <<float(k[2][i][2][1]), float(k[2][i][2][2]), float(k[2][i][2][3])>>]

all_zero_kpts(kpts) == \A i \in 1..Len(kpts) : kpts[i] = <<0, 0, 0>>

\* fr.get("instances", []) or []
FrameInstances(fr) == IF HasKey(fr, "instances") THEN fr.instances ELSE <<>>

\* normalize_kpts raises, or len(kpts) != joints
KptsRejected(inst, V) ==
    IF NormalizeRaises(InstKeypoints(inst)) THEN TRUE
    ELSE Len(normalize_kpts(InstKeypoints(inst))) # V

\* if require_nonzero and all_zero_kpts(kpts): continue
PersonExcluded(inst, rnz) == rnz /\ all_zero_kpts(normalize_kpts(InstKeypoints(inst)))

\* ids_to_kpts[int(tid)] = kpts
DictPut(d, k, v) == [t \in DOMAIN d \cup {k} |-> IF t = k THEN v ELSE d[t]]

\* sorted(ids_to_kpts.keys())
RECURSIVE Sorted(_)
Sorted(S) ==
    IF S = {} THEN <<>>
    ELSE LET least == CHOOSE x \in S : \A y \in S : x <= y
         IN  <<least>> \o Sorted(S \ {least})

\* the lines of one person: track_id, V and V lines "x y z"
PersonLines(tid, kpts, V) == << <<tid>>, <<V>> >> \o kpts

RECURSIVE PersonsLines(_, _, _, _)
PersonsLines(d, tids, k, V) ==
    IF k > Len(tids) THEN <<>>
    ELSE PersonLines(tids[k], d[tids[k]], V) \o PersonsLines(d, tids, k + 1, V)

\* the lines of one frame: header_n and the persons in sorted order
FrameLines(d, V) ==
    LET track_ids_sorted == Sorted(DOMAIN d)
    IN  << <<Len(track_ids_sorted)>> >> \o PersonsLines(d, track_ids_sorted, 1, V)

RECURSIVE FramesLines(_, _, _)
FramesLines(pf, k, V) ==
    IF k > Len(pf) THEN <<>> ELSE FrameLines(pf[k], V) \o FramesLines(pf, k + 1, V)

\* inputs: keypoint lists of two joints (plain, with one extra nesting, all
\* zero) and of one joint; ids -1 (unmatched) and 2
Pt(x, y, z) == <<"l", <<Num(x), Num(y), Num(z)>>>>
KptsA == <<"l", <<Pt(2, 4, 0), Pt(6, 8, 0)>>>>
KptsB == <<"l", << <<"l", <<Pt(1, 1, 2), Pt(3, 3, 2)>>>> >>>>
KptsZero == <<"l", <<Pt(0, 0, 0), Pt(0, 0, 0)>>>>
KptsOne == <<"l", <<Pt(2, 4, 0)>>>>

ConvIds == {Num(JsonInt(-1)), Num(JsonInt(2))}

ConvInsts ==
    { [track_id |-> t, keypoints |-> k] : t \in ConvIds, k \in {KptsA, KptsB, KptsZero} }
    \cup { [keypoints |-> KptsA], [track_id |-> Num(JsonInt(2)), keypoints |-> KptsOne] }

ConvLayouts == {<<1>>, <<1, 2>>}

JointsArgs == {2}

\* the frame lists with at most MaxInst instances, sorted by frame_id as
\* extract_frames returns them
ConvCollections ==
    UNION { { [e \in 1..Len(L) |-> Entry(L[e], ss[e])] :
                ss \in { t \in [1..Len(L) -> SeqsUpTo(ConvInsts, MaxInst)] :
                            SumLen(t, Len(L)) <= MaxInst } } :
            L \in ConvLayouts }

InitConvert ==
    /\ pc = "gather"
    /\ raised = "none"
    /\ conv_frames \in ConvCollections
    /\ joints \in JointsArgs
    /\ require_nonzero \in BOOLEAN
    /\ fr_i = 1
    /\ inst_idx = 1
    /\ ids_to_kpts = <<>>
    /\ per_frame = <<>>
    /\ lines = <<>>
    /\ TrackIdle
    /\ IouIdle

GatherFrameDone ==
    IF fr_i > Len(conv_frames) THEN TRUE
    ELSE inst_idx > Len(FrameInstances(conv_frames[fr_i]))

AtGather == pc = "gather" /\ fr_i <= Len(conv_frames) /\ ~GatherFrameDone

GatherInst == FrameInstances(conv_frames[fr_i])[inst_idx]

\* raise ValueError (normalize_kpts, or the joint count)
GatherRaise ==
    /\ AtGather
    /\ KptsRejected(GatherInst, joints)
    /\ Raise("ValueError")
    /\ UNCHANGED <<trackVars, iouVars, convVars>>

\* continue
GatherSkip ==
    /\ AtGather
    /\ ~KptsRejected(GatherInst, joints)
    /\ PersonExcluded(GatherInst, require_nonzero)
    /\ inst_idx' = inst_idx + 1
    /\ UNCHANGED <<pc, raised, trackVars, iouVars, conv_frames, joints, require_nonzero,
                   fr_i, ids_to_kpts, per_frame, lines>>

GatherPut ==
    /\ AtGather
    /\ ~KptsRejected(GatherInst, joints)
    /\ ~PersonExcluded(GatherInst, require_nonzero)
    /\ ids_to_kpts' = DictPut(ids_to_kpts, get_track_id(GatherInst, inst_idx),
                              normalize_kpts(InstKeypoints(GatherInst)))
    /\ inst_idx' = inst_idx + 1
    /\ UNCHANGED <<pc, raised, trackVars, iouVars, conv_frames, joints, require_nonzero,
                   fr_i, per_frame, lines>>

\* per_frame.append(ids_to_kpts), and the next frame starts with {}
GatherFrameEnd ==
    /\ pc = "gather"
    /\ fr_i <= Len(conv_frames)
    /\ GatherFrameDone
    /\ per_frame' = Append(per_frame, ids_to_kpts)
    /\ fr_i' = fr_i + 1
    /\ inst_idx' = 1
    /\ ids_to_kpts' = <<>>
    /\ UNCHANGED <<pc, raised, trackVars, iouVars, conv_frames, joints, require_nonzero, lines>>

\* 2) Compose output lines, and return
ComposeLines ==
    /\ pc = "gather"
    /\ fr_i > Len(conv_frames)
    /\ lines' = << <<Len(per_frame)>> >> \o FramesLines(per_frame, 1, joints)
    /\ pc' = "converted"
    /\ UNCHANGED <<raised, trackVars, iouVars, conv_frames, joints, require_nonzero,
                   fr_i, inst_idx, ids_to_kpts, per_frame>>

NextConvert ==
    \/ GatherRaise
    \/ GatherSkip
    \/ GatherPut
    \/ GatherFrameEnd
    \/ ComposeLines

SpecConvert == InitConvert /\ [][NextConvert]_vars

(***************************************************************************)
(* Vocabulary of the properties.                                           *)
(***************************************************************************)
Returned == pc \in {"write", "done"}

\* instance i of entry e has been through the loop body
Processed(e, i) == e < fi \/ (e = fi /\ i < ii)

InstIdx(e) == 1..Len(EntryInstances(kp_frames[e]))

InstAt(e, i) == EntryInstances(kp_frames[e])[i]

DetsOf(e) == FrameDets(botsort_frames, EntryFrameId(kp_frames[e]))

RECURSIVE InstancesUpTo(_)
InstancesUpTo(e) == IF e = 0 THEN 0 ELSE Len(EntryInstances(kp_frames[e])) + InstancesUpTo(e - 1)

ProcessedCount == IF fi = 0 THEN 0 ELSE InstancesUpTo(fi - 1) + (ii - 1)

StatsSum == stats.matched_iou + stats.matched_center + stats.no_candidate

StatKeys == {"matched_iou", "matched_center", "no_candidate"}

\* a box of four numbers
FourNumbers(inst) ==
    IF ~HasKey(inst, "bbox") THEN FALSE
    ELSE Len(inst.bbox) = 4 /\ \A k \in 1..4 : inst.bbox[k][1] = "n"

(***************************************************************************)
(* C1: at every point of assign_track_ids, and when it returns,            *)
(* matched_iou + matched_center + no_candidate equals the number of        *)
(* detection instances processed so far, and each processed instance       *)
(* increments exactly one of the three counters by one.                    *)
(***************************************************************************)
C1_OneCounterPerInstance ==
    /\ ProcessedCount' = ProcessedCount + 1 =>
          \E key \in StatKeys : stats' = [stats EXCEPT ![key] = @ + 1]
    /\ ProcessedCount' = ProcessedCount => stats' = stats

C1_CountersSumToProcessed ==
    /\ [](StatsSum = ProcessedCount)
    /\ [](Returned => StatsSum = InstancesUpTo(Len(kp_frames)))
    /\ [][C1_OneCounterPerInstance]_vars

C1_Witness ==
    /\ Returned
    /\ stats.matched_iou = 1
    /\ stats.no_candidate = 1
    /\ ProcessedCount = 2

(***************************************************************************)
(* C2 as claimed: no two processed detections of entries with the same     *)
(* frame_id carry the same non-negative track_id.                          *)
(***************************************************************************)
C2_NoSharedTrackId ==
    \A e1 \in 1..Len(kp_frames), e2 \in 1..Len(kp_frames) :
      \A i1 \in InstIdx(e1), i2 \in InstIdx(e2) :
        ( /\ <<e1, i1>> # <<e2, i2>>
          /\ Processed(e1, i1) /\ Processed(e2, i2)
          /\ EntryFrameId(kp_frames[e1]) = EntryFrameId(kp_frames[e2])
          /\ InstAt(e1, i1).track_id >= 0 )
        => InstAt(e1, i1).track_id # InstAt(e2, i2).track_id

(***************************************************************************)
(* C2 amended: within one frame entry no tracker candidate is used twice:  *)
(* for every non-negative id t, the detections of the entry that were      *)
(* given t are at most as many as the candidates of that frame carrying t, *)
(* so the detections of an entry whose candidates carry distinct ids get   *)
(* pairwise distinct non-negative ids.                                     *)
(***************************************************************************)
AssignedTo(e, t) == { i \in InstIdx(e) : Processed(e, i) /\ InstAt(e, i).track_id = t }

CarriedBy(e, t) == { j \in 1..Len(DetsOf(e)) : DetsOf(e)[j].track_id = t }

C2_CandidateUsedOnce ==
    \A e \in 1..Len(kp_frames) :
      \A i \in InstIdx(e) :
        (Processed(e, i) /\ InstAt(e, i).track_id >= 0) =>
          Cardinality(AssignedTo(e, InstAt(e, i).track_id))
             <= Cardinality(CarriedBy(e, InstAt(e, i).track_id))

C2_Witness ==
    /\ Returned
    /\ \E e \in 1..Len(kp_frames) :
         /\ Len(EntryInstances(kp_frames[e])) = 2
         /\ InstAt(e, 1).track_id >= 0
         /\ InstAt(e, 2).track_id >= 0
         /\ InstAt(e, 1).track_id # InstAt(e, 2).track_id

(***************************************************************************)
(* C7: without use_center_fallback, matched_center is 0 in every state of  *)
(* every run.                                                              *)
(***************************************************************************)
C7_NoFallbackNoCenterMatch == ~use_center_fallback => stats.matched_center = 0

\* a run without the option returned with a detection left unmatched while a
\* candidate of its frame was never consumed
C7_Witness ==
    /\ Returned
    /\ ~use_center_fallback
    /\ fi >= 1
    /\ Cardinality(used) < Len(DetsOf(fi))
    /\ \E i \in InstIdx(fi) : FourNumbers(InstAt(fi, i)) /\ InstAt(fi, i).track_id = -1

(***************************************************************************)
(* Vocabulary of the loader properties.                                    *)
(***************************************************************************)
\* a record with one to five fields
TooShort(row) == Len(row) >= 1 /\ Len(row) < 6

\* a record with six fields or more and a non-numeric one among fields 0-5
BadNumeric(row) == IF Len(row) < 6 THEN FALSE ELSE \E k \in 1..6 : row[k][1] # "n"

WellFormed(row) == Len(row) >= 6 /\ ~BadNumeric(row)

RECURSIVE SumOfLens(_, _)
SumOfLens(f, S) ==
    IF S = {} THEN 0
    ELSE LET x == CHOOSE y \in S : TRUE IN Len(f[x]) + SumOfLens(f, S \ {x})

\* candidates held by the index
LoadedCount == SumOfLens(botsort_frames, DOMAIN botsort_frames)

(***************************************************************************)
(* C3 as claimed: the reader never gets past a record that has fewer than  *)
(* six fields or a non-numeric value in fields 0-5 (the run fails there,   *)
(* the record is not skipped and no later record is loaded).               *)
(***************************************************************************)
C3_MalformedRecordStopsLoad ==
    \A k \in 1..Len(rows) :
        (TooShort(rows[k]) \/ BadNumeric(rows[k])) => row_i <= k

(***************************************************************************)
(* C3 amended: a record with six fields or more and a non-numeric value in *)
(* fields 0-5 ends the run with a ValueError: the reader never gets past   *)
(* it, the run never leaves load_botsort except by failing, and nothing is *)
(* written; a record with fewer than six fields is skipped without effect, *)
(* so the index holds exactly the well-formed records read so far.         *)
(***************************************************************************)
C3_NonNumericAbortsShortSkipped ==
    /\ \A k \in 1..Len(rows) :
          BadNumeric(rows[k]) =>
             /\ row_i <= k
             /\ pc \in {"load_botsort", "error"}
             /\ out_file = <<>>
    /\ (pc = "error" /\ row_i <= Len(rows)) =>
          (BadNumeric(rows[row_i]) /\ raised = "ValueError")
    /\ LoadedCount = Cardinality({ j \in 1..(row_i - 1) : WellFormed(rows[j]) })

\* a short record was skipped, then a non-numeric record ended the run
C3_Witness ==
    /\ Len(rows) = 2
    /\ TooShort(rows[1])
    /\ BadNumeric(rows[2])
    /\ row_i = 2
    /\ pc = "error"
    /\ raised = "ValueError"

(***************************************************************************)
(* C4: the output file is written only by a run that loaded every tracker  *)
(* record and the detection collection and associated every instance of    *)
(* every frame, and it holds the merged collection; a run in which loading *)
(* or association raised never writes it.                                  *)
(***************************************************************************)
C4_AllOrNothing ==
    /\ out_file # <<>> =>
          /\ pc = "done"
          /\ raised = "none"
          /\ row_i > Len(rows)
          /\ kp_file.ok
          /\ Len(kp_frames) = Len(kp_file.doc)
          /\ ProcessedCount = InstancesUpTo(Len(kp_frames))
          /\ \A e \in 1..Len(kp_frames) : \A i \in InstIdx(e) : HasKey(InstAt(e, i), "track_id")
          /\ out_file = <<kp_frames>>
    /\ raised # "none" => (pc = "error" /\ out_file = <<>>)

C4_Witness ==
    /\ pc = "done"
    /\ out_file = <<kp_frames>>
    /\ Len(FrameDets(botsort_frames, 1)) = 2
    /\ stats.matched_iou = 2

(***************************************************************************)
(* Vocabulary of the association properties.                               *)
(***************************************************************************)
CandIds(e) == { DetsOf(e)[j].track_id : j \in 1..Len(DetsOf(e)) }

\* the track_id the step under way writes into the current instance
WrittenId == EntryInstances(kp_frames'[fi])[ii].track_id

\* the step under way is one pass of the loop body that completes
InstanceStep == ProcessedCount' = ProcessedCount + 1

Unconsumed == (1..Len(CurDets)) \ used

(***************************************************************************)
(* C5 as claimed: assign_track_ids never raises, and every processed       *)
(* instance without a usable box of four numbers (missing, empty, of       *)
(* another length, or with a non-numeric element) has track_id = -1.       *)
(***************************************************************************)
C5_UnusableBoxNeverRaises ==
    /\ raised = "none"
    /\ \A e \in 1..Len(kp_frames) : \A i \in InstIdx(e) :
          (Processed(e, i) /\ ~FourNumbers(InstAt(e, i))) => InstAt(e, i).track_id = -1

(***************************************************************************)
(* C6 as claimed: after assign_track_ids every instance has a track_id     *)
(* that is -1 or a non-negative id of a candidate of its frame.            *)
(***************************************************************************)
C6_NonNegativeOrSentinel ==
    Returned =>
      \A e \in 1..Len(kp_frames) : \A i \in InstIdx(e) :
         \/ InstAt(e, i).track_id = -1
         \/ (InstAt(e, i).track_id >= 0 /\ InstAt(e, i).track_id \in CandIds(e))

(***************************************************************************)
(* C6 amended: after assign_track_ids every instance has a track_id that   *)
(* is either the track_id of a candidate of its frame, whatever its sign,  *)
(* written together with an increment of matched_iou or matched_center and *)
(* the consumption of that candidate, or the sentinel -1 written together  *)
(* with an increment of no_candidate; it is non-negative or -1 whenever    *)
(* the ids of the frame's candidates are non-negative.                     *)
(***************************************************************************)
C6_StepWritesCandidateOrSentinel ==
    InstanceStep =>
       \/ /\ \E j \in Unconsumed : WrittenId = CurDets[j].track_id /\ used' = used \cup {j}
          /\ \E key \in {"matched_iou", "matched_center"} : stats' = [stats EXCEPT ![key] = @ + 1]
       \/ /\ WrittenId = -1
          /\ used' = used
          /\ stats' = [stats EXCEPT !["no_candidate"] = @ + 1]

C6_CandidateIdOrSentinel ==
    /\ [](Returned =>
            \A e \in 1..Len(kp_frames) : \A i \in InstIdx(e) :
               /\ HasKey(InstAt(e, i), "track_id")
               /\ InstAt(e, i).track_id \in CandIds(e) \cup {-1}
               /\ (\A t \in CandIds(e) : t >= 0) => InstAt(e, i).track_id >= -1)
    /\ [][C6_StepWritesCandidateOrSentinel]_vars

\* a returned run that copied a negative candidate id and wrote a sentinel
C6_Witness ==
    /\ Returned
    /\ \E e \in 1..Len(kp_frames) : \E i \in InstIdx(e) : InstAt(e, i).track_id < -1
    /\ \E e \in 1..Len(kp_frames) : \E i \in InstIdx(e) : InstAt(e, i).track_id = -1

(***************************************************************************)
(* C8: assign_track_ids leaves the number and order of entries and         *)
(* instances, every frame_id, every bbox and every other attribute as they *)
(* were; a processed instance differs from the original only by its        *)
(* track_id key (added or overwritten), an unprocessed one not at all; the *)
(* tracker index is never changed.                                         *)
(***************************************************************************)
OnlyTrackIdWritten(orig, cur, done) ==
    IF done
    THEN /\ DOMAIN cur = DOMAIN orig \cup {"track_id"}
         /\ \A k \in DOMAIN orig \ {"track_id"} : cur[k] = orig[k]
    ELSE cur = orig

C8_CollectionKept ==
    /\ Len(kp_frames) = Len(kp_file.doc)
    /\ \A e \in 1..Len(kp_frames) :
          /\ DOMAIN kp_frames[e] = DOMAIN kp_file.doc[e]
          /\ kp_frames[e].frame_id = kp_file.doc[e].frame_id
          /\ Len(kp_frames[e].instances) = Len(kp_file.doc[e].instances)
          /\ \A i \in InstIdx(e) :
                OnlyTrackIdWritten(kp_file.doc[e].instances[i], InstAt(e, i), Processed(e, i))

C8_OnlyTrackIdChanges ==
    /\ []C8_CollectionKept
    /\ [][botsort_frames' = botsort_frames]_vars

\* a returned run that created one track_id and overwrote another
C8_Witness ==
    /\ Returned
    /\ \E e \in 1..Len(kp_frames) : \E i \in InstIdx(e) :
          /\ ~HasKey(kp_file.doc[e].instances[i], "track_id")
          /\ InstAt(e, i).track_id >= 0
    /\ \E e \in 1..Len(kp_frames) : \E i \in InstIdx(e) :
          /\ HasKey(kp_file.doc[e].instances[i], "track_id")
          /\ InstAt(e, i).track_id # kp_file.doc[e].instances[i].track_id

(***************************************************************************)
(* C9: with min_iou = 0.0 the valid-box detections of a frame entry are    *)
(* served in stored order, each taking a candidate in phase 1 while an     *)
(* unconsumed candidate remains (zero overlap included): with c candidates *)
(* the first min(c, d) of the d valid-box detections are matched by IoU    *)
(* and the others get track_id = -1 and no_candidate.  At return           *)
(* matched_iou is the sum of min(c, d) over the entries, matched_center is *)
(* 0 and no_candidate counts every other instance.                         *)
(***************************************************************************)
ValidBefore(e, i) == Cardinality({ k \in 1..(i - 1) : FourNumbers(InstAt(e, k)) })

ValidIn(e) == Cardinality({ k \in InstIdx(e) : FourNumbers(InstAt(e, k)) })

RECURSIVE ExpectedIouMatches(_)
ExpectedIouMatches(e) ==
    IF e = 0 THEN 0
    ELSE (IF ValidIn(e) < Len(DetsOf(e)) THEN ValidIn(e) ELSE Len(DetsOf(e)))
         + ExpectedIouMatches(e - 1)

C9_FirstComeFirstServed ==
    min_iou = <<0, 1>> =>
      /\ \A e \in 1..Len(kp_frames) : \A i \in InstIdx(e) :
            (Processed(e, i) /\ FourNumbers(InstAt(e, i))) =>
               IF ValidBefore(e, i) < Len(DetsOf(e))
               THEN InstAt(e, i).track_id \in CandIds(e)
               ELSE InstAt(e, i).track_id = -1
      /\ Returned =>
            /\ stats.matched_iou = ExpectedIouMatches(Len(kp_frames))
            /\ stats.matched_center = 0
            /\ stats.no_candidate = InstancesUpTo(Len(kp_frames)) - stats.matched_iou

\* one candidate that overlaps neither of two valid detections: the first
\* detection takes it, the second gets the sentinel
C9_Witness ==
    /\ Returned
    /\ min_iou = <<0, 1>>
    /\ \E e \in 1..Len(kp_frames) :
          /\ Len(DetsOf(e)) = 1
          /\ Len(EntryInstances(kp_frames[e])) = 2
          /\ FourNumbers(InstAt(e, 1)) /\ FourNumbers(InstAt(e, 2))
          /\ iou_xyxy(BBoxFloats(InstAt(e, 1)), DetsOf(e)[1].bbox_xyxy)[1] = 0
          /\ InstAt(e, 1).track_id = DetsOf(e)[1].track_id
          /\ InstAt(e, 2).track_id = -1

(***************************************************************************)
(* C10: in phase 1 the candidate selected for a detection is, among the    *)
(* candidates of the frame not consumed by earlier detections, the one of  *)
(* maximum IoU with the detection's box, the earliest in list order among  *)
(* equals; it is assigned and consumed exactly when that IoU is >= min_iou,*)
(* and when the floor rejects it phase 1 consumes nothing (the detection   *)
(* is then left to the fallback or gets -1).                               *)
(***************************************************************************)
IouWith(j) == iou_xyxy(BBoxFloats(CurInst), CurDets[j].bbox_xyxy)

StableArgmax(j) ==
    /\ j \in Unconsumed
    /\ \A k \in Unconsumed :
          /\ FracGE(IouWith(j), IouWith(k))
          /\ k < j => FracGT(IouWith(j), IouWith(k))

FloorPassed == \E j \in Unconsumed : StableArgmax(j) /\ FracGE(IouWith(j), min_iou)

C10_Phase1Step ==
    (InstanceStep /\ FourNumbers(CurInst) /\ Len(CurDets) > 0) =>
       /\ (stats'.matched_iou = stats.matched_iou + 1) <=> FloorPassed
       /\ FloorPassed =>
             \E j \in Unconsumed :
                /\ StableArgmax(j)
                /\ used' = used \cup {j}
                /\ WrittenId = CurDets[j].track_id
       /\ (~FloorPassed /\ stats'.matched_center = stats.matched_center) =>
             (used' = used /\ WrittenId = -1)

C10_StableArgmaxAboveFloor == [][C10_Phase1Step]_vars

\* two unconsumed candidates with the same box and different ids: the first
\* was taken, the second is still free
C10_Witness ==
    /\ pc = "loop"
    /\ fi >= 1
    /\ ii = 2
    /\ Len(DetsOf(fi)) = 2
    /\ DetsOf(fi)[1].bbox_xyxy = DetsOf(fi)[2].bbox_xyxy
    /\ DetsOf(fi)[1].track_id # DetsOf(fi)[2].track_id
    /\ used = {1}
    /\ stats.matched_iou = 1
    /\ InstAt(fi, 1).track_id = DetsOf(fi)[1].track_id

(***************************************************************************)
(* C11: with the center fallback enabled, a detection with a box of four   *)
(* numbers that phase 1 did not assign while at least one unconsumed       *)
(* candidate remains is assigned an unconsumed candidate whose box center  *)
(* is at minimum squared distance from the detection's box center, however *)
(* large that distance is; the candidate is consumed and matched_center is *)
(* incremented.  Such a detection gets -1 only when no unconsumed          *)
(* candidate remains.                                                      *)
(***************************************************************************)
\* squared distance between the centers of two boxes, times 4
CenterGap2(a, b) ==
    ((a[1] + a[3]) - (b[1] + b[3])) * ((a[1] + a[3]) - (b[1] + b[3]))
    + ((a[2] + a[4]) - (b[2] + b[4])) * ((a[2] + a[4]) - (b[2] + b[4]))

GapWith(j) == CenterGap2(BBoxFloats(CurInst), CurDets[j].bbox_xyxy)

Nearest(j) == j \in Unconsumed /\ \A k \in Unconsumed : GapWith(j) <= GapWith(k)

C11_Phase2Step ==
    (InstanceStep /\ use_center_fallback /\ FourNumbers(CurInst)) =>
       /\ (Unconsumed # {} /\ stats'.matched_iou = stats.matched_iou) =>
             /\ stats' = [stats EXCEPT !["matched_center"] = @ + 1]
             /\ \E j \in Unconsumed :
                   /\ Nearest(j)
                   /\ used' = used \cup {j}
                   /\ WrittenId = CurDets[j].track_id
       /\ (stats'.no_candidate = stats.no_candidate + 1) =>
             (Unconsumed = {} /\ WrittenId = -1 /\ used' = used)

C11_FallbackTakesNearest == [][C11_Phase2Step]_vars

\* phase 1 rejected both candidates and the fallback took the second one,
\* which is nearer than the first
C11_Witness ==
    /\ pc = "loop"
    /\ use_center_fallback
    /\ fi >= 1
    /\ ii = 2
    /\ Len(DetsOf(fi)) = 2
    /\ FourNumbers(InstAt(fi, 1))
    /\ CenterGap2(BBoxFloats(InstAt(fi, 1)), DetsOf(fi)[2].bbox_xyxy)
          < CenterGap2(BBoxFloats(InstAt(fi, 1)), DetsOf(fi)[1].bbox_xyxy)
    /\ used = {2}
    /\ stats.matched_center = 1
    /\ stats.matched_iou = 0
    /\ InstAt(fi, 1).track_id = DetsOf(fi)[2].track_id

(***************************************************************************)
(* Vocabulary of the IoU properties.                                       *)
(***************************************************************************)
IouReturned == pc = "iou_done"

\* numerator and denominator of the returned quotient
IouNum == iou_ret[1][1]
IouDen == iou_ret[1][2]

PositiveExtent(r) == r[3] > r[1] /\ r[4] > r[2]

\* the rectangles share no interior point
Disjoint(a, b) == a[3] <= b[1] \/ b[3] <= a[1] \/ a[4] <= b[2] \/ b[4] <= a[2]

IouWellDefinedInUnitRange == IouDen > 0 /\ 0 <= IouNum /\ IouNum <= IouDen

(***************************************************************************)
(* C12 as claimed: for all rectangles of the grid, degenerate and inverted *)
(* ones included, iou_xyxy returns 1 for two identical rectangles, 0 for   *)
(* two disjoint rectangles and 0 whenever either rectangle has zero or     *)
(* negative width or height; it never faults and its value is in [0, 1].   *)
(***************************************************************************)
C12_IdenticalAlwaysOne ==
    IouReturned =>
       /\ IouWellDefinedInUnitRange
       /\ iou_a = iou_b => IouNum = IouDen
       /\ Disjoint(iou_a, iou_b) => IouNum = 0
       /\ (~PositiveExtent(iou_a) \/ ~PositiveExtent(iou_b)) => IouNum = 0

(***************************************************************************)
(* C12 amended: for all rectangles of the grid, degenerate and inverted    *)
(* ones included, iou_xyxy returns 1 for two identical rectangles of       *)
(* positive width and height, 0 for two disjoint rectangles and 0 whenever *)
(* either rectangle has zero or negative width or height (two identical    *)
(* such rectangles included); it never faults, the union area being zero   *)
(* or not, and its value is in [0, 1].                                     *)
(***************************************************************************)
C12_IouOnGrid ==
    IouReturned =>
       /\ IouWellDefinedInUnitRange
       /\ (iou_a = iou_b /\ PositiveExtent(iou_a)) => IouNum = IouDen
       /\ Disjoint(iou_a, iou_b) => IouNum = 0
       /\ (~PositiveExtent(iou_a) \/ ~PositiveExtent(iou_b)) => IouNum = 0

\* two identical rectangles without area, whose union area is zero: 0 is
\* returned
C12_Witness ==
    /\ IouReturned
    /\ iou_a = iou_b
    /\ ~PositiveExtent(iou_a)
    /\ iou_a[3] < iou_a[1]
    /\ IouNum = 0

(***************************************************************************)
(* Vocabulary of the skeleton text properties.                             *)
(***************************************************************************)
Converted == pc = "converted"

\* every instance carries an integer track_id, as assign_track_ids leaves it
Merged ==
    \A f \in 1..Len(conv_frames) : \A i \in 1..Len(FrameInstances(conv_frames[f])) :
       LET inst == FrameInstances(conv_frames[f])[i]
       IN  IF ~HasKey(inst, "track_id") THEN FALSE
           ELSE inst.track_id[1] = "n" /\ inst.track_id[2] % 2 = 0

\* a person as the text shows it: the id and the joints
PersonOf(inst) ==
    [tid |-> inst.track_id[2] \div 2, kpts |-> normalize_kpts(InstKeypoints(inst))]

\* the persons of frame f with valid keypoints
ValidPersons(f) ==
    { i \in 1..Len(FrameInstances(conv_frames[f])) :
         ~(require_nonzero /\ all_zero_kpts(PersonOf(FrameInstances(conv_frames[f])[i]).kpts)) }

\* the text read back: n persons from line p on
RECURSIVE ReadPersons(_, _)
ReadPersons(p, n) ==
    IF n = 0 THEN <<>>
    ELSE << [tid |-> lines[p][1], kpts |-> SubSeq(lines, p + 2, p + 1 + lines[p + 1][1])] >>
         \o ReadPersons(p + 2 + lines[p + 1][1], n - 1)

\* the line after the n persons that start at line p
RECURSIVE SkipPersons(_, _)
SkipPersons(p, n) == IF n = 0 THEN p ELSE SkipPersons(p + 2 + lines[p + 1][1], n - 1)

\* the line of the header N of frame f
RECURSIVE HeaderLine(_)
HeaderLine(f) ==
    IF f = 1 THEN 2 ELSE SkipPersons(HeaderLine(f - 1) + 1, lines[HeaderLine(f - 1)][1])

HeaderN(f) == lines[HeaderLine(f)][1]

Printed(f) == ReadPersons(HeaderLine(f) + 1, HeaderN(f))

(***************************************************************************)
(* C13 as claimed: in the text convert_frames_to_lines returns for a       *)
(* merged collection, the header N of each frame is the number of persons  *)
(* of the frame with valid keypoints, and each of them is printed exactly  *)
(* once, in ascending track_id order, also when several instances of the   *)
(* frame carry the same track_id.                                          *)
(***************************************************************************)
C13_EveryValidPersonPrintedOnce ==
    (Converted /\ Merged) =>
       /\ lines[1][1] = Len(conv_frames)
       /\ \A f \in 1..Len(conv_frames) :
             /\ HeaderN(f) = Cardinality(ValidPersons(f))
             /\ \A j \in 1..(Len(Printed(f)) - 1) : Printed(f)[j].tid <= Printed(f)[j + 1].tid
             /\ \A i \in ValidPersons(f) :
                   LET person == PersonOf(FrameInstances(conv_frames[f])[i])
                   IN  Cardinality({ j \in 1..Len(Printed(f)) : Printed(f)[j] = person })
                       = Cardinality({ k \in ValidPersons(f) :
                                         PersonOf(FrameInstances(conv_frames[f])[k]) = person })

====
